---- MODULE Spec2Model ----
(***************************************************************************)
(* Model of src/main.py: the SpeciesNet attribution batch loop, its        *)
(* candidate selection, its persistence adapter and the continuous driver. *)
(* Strings are sequences of one-character strings; confidences and the     *)
(* threshold are integers in hundredths (0.30 is 30).                      *)
(***************************************************************************)
EXTENDS Integers, Sequences, FiniteSets, TLC

\* ---------------------------------------------------------------- bounds
NumImages == 3
MaxTime == 2
MaxBatches == 2
MaxBatchSizeArg == 1
MaxLimit == 2
MaxLabelLen == 3

\* ------------------------------------------------------ program constants
BATCH_SIZE == 2
CONFIDENCE_THRESHOLD == 30
MODEL_VERSION == "speciesnet-ensemble"
max_retries_off_by_one == 5 + 1
max_retries == 5

\* ------------------------------------------------------------ characters
LowerLetters == <<"a","b","c","d","e","f","g","h","i","j","k","l","m",
                  "n","o","p","q","r","s","t","u","v","w","x","y","z">>
UpperLetters == <<"A","B","C","D","E","F","G","H","I","J","K","L","M",
                  "N","O","P","Q","R","S","T","U","V","W","X","Y","Z">>

Range(s) == {s[i] : i \in DOMAIN s}

LowerSet == Range(LowerLetters)
UpperSet == Range(UpperLetters)

IsLower(c) == c \in LowerSet
IsUpper(c) == c \in UpperSet
IsCased(c) == IsLower(c) \/ IsUpper(c)
IsSpace(c) == c = " "

LowerOf == [c \in UpperSet |->
              LowerLetters[CHOOSE i \in DOMAIN UpperLetters : UpperLetters[i] = c]]
UpperOf == [c \in LowerSet |->
              UpperLetters[CHOOSE i \in DOMAIN LowerLetters : LowerLetters[i] = c]]

ToLowerChar(c) == IF IsUpper(c) THEN LowerOf[c] ELSE c
ToUpperChar(c) == IF IsLower(c) THEN UpperOf[c] ELSE c

\* str.lower()
Lower(s) == [i \in DOMAIN s |-> ToLowerChar(s[i])]

\* str.replace("_", " ")
ReplaceUnderscores(s) == [i \in DOMAIN s |-> IF s[i] = "_" THEN " " ELSE s[i]]

\* str.title(): a cased character is upper-cased when the character before
\* it is not cased, lower-cased otherwise
Title(s) ==
  [i \in DOMAIN s |->
     IF ~IsCased(s[i]) THEN s[i]
     ELSE IF i > 1 /\ IsCased(s[i-1]) THEN ToLowerChar(s[i])
     ELSE ToUpperChar(s[i])]

\* str.strip()
RECURSIVE LStrip(_)
LStrip(s) == IF s # <<>> /\ IsSpace(Head(s)) THEN LStrip(Tail(s)) ELSE s

RECURSIVE RStrip(_)
RStrip(s) ==
  IF s # <<>> /\ IsSpace(s[Len(s)]) THEN RStrip(SubSeq(s, 1, Len(s) - 1)) ELSE s

Strip(s) == RStrip(LStrip(s))

\* str.split(";"): the segments between separators, empty ones included
RECURSIVE SplitAcc(_, _, _)
SplitAcc(s, cur, acc) ==
  IF s = <<>> THEN Append(acc, cur)
  ELSE IF Head(s) = ";" THEN SplitAcc(Tail(s), <<>>, Append(acc, cur))
  ELSE SplitAcc(Tail(s), Append(cur, Head(s)), acc)

Split(s) == SplitAcc(s, <<>>, <<>>)

SelectSeqStripped(segs) ==
  LET stripped == [i \in DOMAIN segs |-> Strip(segs[i])]
  IN  SelectSeq(stripped, LAMBDA p : p # <<>>)

\* _extract_species_name; an absent label is modelled as the empty string
\* (both take the "not label" branch)
Unknown == <<"U","n","k","n","o","w","n">>

_extract_species_name(label) ==
  IF label = <<>> THEN Unknown
  ELSE LET parts == SelectSeqStripped(Split(label))
           name == IF parts # <<>> THEN parts[Len(parts)] ELSE label
       IN  Title(ReplaceUnderscores(name))

BLOCKLIST == { <<"b","l","a","n","k">>, <<"u","n","k","n","o","w","n">>,
               <<"v","e","h","i","c","l","e">>, <<"h","u","m","a","n">>,
               <<"p","e","r","s","o","n">>, <<>> }

bird == <<"b","i","r","d">>
IsGeneric(name) == Lower(name) = bird

\* ------------------------------------------------- predictions document
\* A prediction entry p of predictions.json is a record
\*   [filepath, prediction, prediction_score, failures, classes, scores];
\* an absent document is NoDoc.
NoDoc == [exists |-> FALSE, predictions |-> <<>>]
MkDoc(preds) == [exists |-> TRUE, predictions |-> preds]

\* a score that float() rejects
NonNumeric == -999
ToFloat(x) == IF x = NonNumeric THEN 0 ELSE x

Min(a, b) == IF a < b THEN a ELSE b

Pred(name, conf) == [name |-> name, confidence |-> conf]

\* the primary candidate of entry p (lines 153-163)
PrimaryRows(p, threshold) ==
  LET species_name == _extract_species_name(p.prediction)
  IN  IF Lower(species_name) \notin BLOCKLIST /\ p.prediction_score >= threshold
      THEN << Pred(species_name, p.prediction_score) >>
      ELSE <<>>

\* the alternates of entry p: list(zip(classes, scores))[:5] (lines 165-183)
RECURSIVE AltRowsFrom(_, _, _, _)
AltRowsFrom(p, threshold, i, n) ==
  IF i > n THEN <<>>
  ELSE LET alt_species == _extract_species_name(p.classes[i])
           alt_conf == ToFloat(p.scores[i])
           rest == AltRowsFrom(p, threshold, i + 1, n)
       IN  IF Lower(alt_species) \in BLOCKLIST THEN rest
           ELSE IF alt_conf >= threshold
                   /\ alt_species # _extract_species_name(p.prediction)
                THEN << Pred(alt_species, alt_conf) >> \o rest
                ELSE rest

\* alternates taken without the cut at five
AltRows_all(p, threshold) ==
  IF "CLASSIFIER" \in p.failures THEN <<>>
  ELSE AltRowsFrom(p, threshold, 1, Min(Len(p.classes), Len(p.scores)))

AltRows(p, threshold) ==
  IF "CLASSIFIER" \in p.failures THEN <<>>
  ELSE AltRowsFrom(p, threshold, 1, Min(5, Min(Len(p.classes), Len(p.scores))))

\* a merge that keeps the first confidence seen for a name
RECURSIVE UniqAcc_first(_, _)
UniqAcc_first(rows, uniq) ==
  IF rows = <<>> THEN uniq
  ELSE IF \E i \in DOMAIN uniq : Lower(uniq[i].name) = Lower(Head(rows).name)
       THEN UniqAcc_first(Tail(rows), uniq)
       ELSE UniqAcc_first(Tail(rows), Append(uniq, Head(rows)))

\* uniq: first occurrence fixes the position, a strictly greater confidence
\* replaces the value (lines 187-191)
RECURSIVE UniqAcc(_, _)
UniqAcc(rows, uniq) ==
  IF rows = <<>> THEN uniq
  ELSE LET r == Head(rows)
           k == Lower(r.name)
           hit == {i \in DOMAIN uniq : Lower(uniq[i].name) = k}
       IN  IF hit = {} THEN UniqAcc(Tail(rows), Append(uniq, r))
           ELSE LET i == CHOOSE j \in hit : TRUE
                IN  IF r.confidence > uniq[i].confidence
                    THEN UniqAcc(Tail(rows), [uniq EXCEPT ![i] = r])
                    ELSE UniqAcc(Tail(rows), uniq)

Uniq(rows) == UniqAcc(rows, <<>>)

\* sorted(..., key=confidence, reverse=True): stable insertion
RECURSIVE InsertDesc(_, _)
InsertDesc(sorted, r) ==
  IF sorted = <<>> THEN << r >>
  ELSE IF Head(sorted).confidence >= r.confidence
       THEN << Head(sorted) >> \o InsertDesc(Tail(sorted), r)
       ELSE << r >> \o sorted

RECURSIVE SortedDesc(_)
SortedDesc(rows) ==
  IF rows = <<>> THEN <<>>
  ELSE InsertDesc(SortedDesc(SubSeq(rows, 1, Len(rows) - 1)), rows[Len(rows)])

DedupSort(rows) == SortedDesc(Uniq(rows))

\* per_image is a sequence of [id, preds] in insertion order (a dict)
PerImageIds(per_image) == {per_image[i].id : i \in DOMAIN per_image}

PerImageGet(per_image, id) ==
  IF id \in PerImageIds(per_image)
  THEN per_image[CHOOSE i \in DOMAIN per_image : per_image[i].id = id].preds
  ELSE <<>>

PerImagePut(per_image, id, preds) ==
  IF id \in PerImageIds(per_image)
  THEN [i \in DOMAIN per_image |->
          IF per_image[i].id = id THEN [id |-> id, preds |-> preds] ELSE per_image[i]]
  ELSE Append(per_image, [id |-> id, preds |-> preds])

\* the loop over preds (lines 147-192); table is path_to_image_id
RECURSIVE ParseEntries(_, _, _, _)
ParseEntries(preds, table, threshold, per_image) ==
  IF preds = <<>> THEN per_image
  ELSE LET p == Head(preds)
       IN  IF p.filepath \notin DOMAIN table
           THEN ParseEntries(Tail(preds), table, threshold, per_image)
           ELSE LET image_id == table[p.filepath]
                    all == PerImageGet(per_image, image_id)
                             \o PrimaryRows(p, threshold) \o AltRows(p, threshold)
                IN  IF all = <<>>
                    THEN ParseEntries(Tail(preds), table, threshold, per_image)
                    ELSE ParseEntries(Tail(preds), table, threshold,
                                      PerImagePut(per_image, image_id, DedupSort(all)))

parse_speciesnet_output(output_json, table, threshold) ==
  IF ~output_json.exists THEN <<>>
  ELSE ParseEntries(output_json.predictions, table, threshold, <<>>)

\* ------------------------------------------------------------- datastore
ImageIds == 1 .. NumImages
NoUrl == <<>>
UrlOf(id) == <<"u", id>>
PathOf(id) == <<"images", id>>

ImageRow(tbl, id) == [id |-> id, image_url |-> tbl[id].image_url, taken_on |-> tbl[id].taken_on]

\* the orders .order("taken_on", desc=True) may deliver (ties in any order)
DescOrders(tbl) ==
  {o \in [1 .. NumImages -> ImageIds] :
     /\ \A i, j \in 1 .. NumImages : i # j => o[i] # o[j]
     /\ \A i \in 1 .. NumImages - 1 : tbl[o[i]].taken_on >= tbl[o[i+1]].taken_on}

FirstN(s, n) == SubSeq(s, 1, Min(n, Len(s)))

\* a selector that forgets the attribution-existence filter
get_candidate_images_unfiltered(tbl, attrs, order, limit) ==
  LET fetched == FirstN([i \in 1 .. NumImages |-> ImageRow(tbl, order[i])], limit * 2)
  IN  FirstN(SelectSeq(fetched, LAMBDA r : r.image_url # NoUrl), limit)

\* get_candidate_images, given the order the images query delivered
get_candidate_images(tbl, attrs, order, limit) ==
  LET fetched == FirstN([i \in 1 .. NumImages |-> ImageRow(tbl, order[i])], limit * 2)
      ids == {fetched[i].id : i \in DOMAIN fetched}
      attributed == {r.image_id : r \in {x \in attrs : x.image_id \in ids}}
  IN  FirstN(SelectSeq(fetched, LAMBDA r : r.id \notin attributed /\ r.image_url # NoUrl),
             limit)

AttrRow(image_id, s) ==
  [image_id |-> image_id, model_version |-> MODEL_VERSION,
   species |-> s.name, confidence |-> s.confidence]

SameKey(a, b) ==
  a.image_id = b.image_id /\ a.species = b.species /\ a.model_version = b.model_version

\* an insert that ignores the conflict target
UpsertRow_insert(attrs, row) == attrs \cup {row}

\* upsert(rows, on_conflict="image_id,species,model_version"), row by row
UpsertRow(attrs, row) == {a \in attrs : ~SameKey(a, row)} \cup {row}

RECURSIVE upsert_attributions(_, _, _)
upsert_attributions(attrs, image_id, species_rows) ==
  IF species_rows = <<>> THEN attrs
  ELSE upsert_attributions(UpsertRow(attrs, AttrRow(image_id, Head(species_rows))),
                           image_id, Tail(species_rows))

\* ----------------------------------------------- external collaborators
L_bird == <<"a",";","b","i","r","d">>
L_owl == <<"b","_","o","w","l">>
L_blank == <<"b","l","a","n","k">>

\* what the classifier may report for one file: the generic label, a
\* species, the generic label with a species among the alternates, nothing
\* usable
RawChoices ==
  { [prediction |-> L_bird, prediction_score |-> 90, failures |-> {},
     classes |-> <<>>, scores |-> <<>>],
    [prediction |-> L_owl, prediction_score |-> 80, failures |-> {},
     classes |-> <<>>, scores |-> <<>>],
    [prediction |-> L_bird, prediction_score |-> 90, failures |-> {},
     classes |-> <<L_owl, L_blank>>, scores |-> <<60, 70>>],
    [prediction |-> L_blank, prediction_score |-> 95, failures |-> {"CLASSIFIER"},
     classes |-> <<L_owl>>, scores |-> <<70>>] }

Entry(id, raw) ==
  [filepath |-> PathOf(id), prediction |-> raw.prediction,
   prediction_score |-> raw.prediction_score, failures |-> raw.failures,
   classes |-> raw.classes, scores |-> raw.scores]

\* the documents the classifier may write for the files of the folder: one
\* entry for each file, in identifier order
RECURSIVE DocsFrom(_, _)
DocsFrom(fileset, id) ==
  IF id > NumImages THEN { <<>> }
  ELSE LET rest == DocsFrom(fileset, id + 1)
       IN  IF PathOf(id) \notin fileset THEN rest
           ELSE {<< Entry(id, raw) >> \o d : raw \in RawChoices, d \in rest}

ClassifierDocs(fileset) == {MkDoc(d) : d \in DocsFrom(fileset, 1)}

Osprey == <<"O","s","p","r","e","y">>
Bird == <<"B","i","r","d">>
B_Owl == <<"B"," ","O","w","l">>

\* what the classifier may leave behind: a crashed run (non-zero exit) leaves
\* no document or a truncated one, a clean run a document or none
ClassifierOutcomes(ok, fileset) ==
  IF ok THEN ClassifierDocs(fileset) \cup {NoDoc} ELSE {NoDoc, MkDoc(<<>>)}

\* the JSON arrays the vision service may answer with
FallbackResponses ==
  { <<>>,
    << Pred(B_Owl, 50), Pred(Osprey, 20) >>,
    << Pred(Bird, 70) >> }

\* classify_with_openai: raised stands for any exception inside the try block
classify_with_openai(configured, raised, answer) ==
  IF ~configured THEN <<>>
  ELSE IF raised THEN <<>>
  ELSE SelectSeq(answer, LAMBDA r : r.confidence >= CONFIDENCE_THRESHOLD)

\* the composite key of a row
KeyOf(row) == << row.image_id, row.species, row.model_version >>

\* history of upsert_attributions calls: the confidence each key was last
\* given, kept apart from the table itself
RECURSIVE LogUpsert(_, _, _)
LogUpsert(log, image_id, species_rows) ==
  IF species_rows = <<>> THEN log
  ELSE LET k == << image_id, Head(species_rows).name, MODEL_VERSION >>
           c == Head(species_rows).confidence
       IN  LogUpsert([x \in DOMAIN log \cup {k} |-> IF x = k THEN c ELSE log[x]],
                     image_id, Tail(species_rows))

\* ----------------------------------------------------------------- state
VARIABLES
  images,             \* datastore table images: id -> [image_url, taken_on]
  attributions,       \* datastore table attributions: a set of rows
  openai_configured,  \* openai_client is not None
  pc,                 \* control position
  continuous,         \* the trigger's continuous parameter
  actual_batch_size,  \* batch_size or BATCH_SIZE
  candidates,         \* run_batch: candidates
  idx,                \* run_batch: position of the download / fallback loop
  path_to_image_id,   \* run_batch: path -> image id
  files,              \* the image files in the workspace folder
  output_json,        \* the predictions document in the workspace
  downloaded,         \* run_batch: downloaded
  attempt,            \* run_batch: attempt
  attributions_count, \* run_batch: attributions_count
  generic_left,       \* run_batch: generic_left
  result,             \* what run_batch returned
  total_processed,    \* run_continuous: total_processed
  total_attributions, \* run_continuous: total_attributions
  batch_num,          \* run_continuous: batch_num
  cont_result,        \* what run_continuous returned
  classifier_calls,   \* history: run_speciesnet_on_folder calls of this batch
  last_call_ok,       \* history: the latest of those calls succeeded
  fallback_calls,     \* history: classify_with_openai calls of this batch
  rows_upserted,      \* history: rows passed to upsert_attributions, this batch
  attrs_at_select,    \* history: attributions when the batch selected
  seen_candidates,    \* history: ids that were candidates of a batch of this run
  always_bird,        \* history: every call so far reported "Bird" for every image
  all_failed,         \* history: every call so far of this batch failed
  last_written,       \* history: key -> confidence of the latest upsert of the key
  entry,              \* the entry point of the run: "http" or "cli"
  outcome,            \* what the entry point handed to its caller
  failed_downloads,   \* history: ids whose download failed in this batch
  parsed_attempt,     \* history: the attempt that wrote the document last parsed
  written_by,         \* history: the attempt whose invocation wrote output_json
  label,              \* _extract_species_name: its argument
  species_name,       \* _extract_species_name(label)
  species_again,      \* _extract_species_name(species_name)
  threshold,          \* parse_speciesnet_output: its threshold argument
  parsed              \* parse_speciesnet_output: what it returned

vars == << images, attributions, openai_configured, pc, continuous,
           actual_batch_size, candidates, idx, path_to_image_id, files,
           output_json, downloaded, attempt, attributions_count, generic_left,
           result, total_processed, total_attributions, batch_num, cont_result,
           classifier_calls, last_call_ok, fallback_calls, rows_upserted,
           attrs_at_select, seen_candidates, always_bird, all_failed,
           last_written, entry, outcome, failed_downloads, parsed_attempt,
           written_by, label, species_name, species_again, threshold, parsed >>

dsVars == << images, openai_configured, entry >>
pureVars == << label, species_name, species_again, threshold, parsed >>
contVars == << total_processed, total_attributions, batch_num, cont_result >>
triggerVars == << continuous, actual_batch_size >>

NoResult == [returned |-> FALSE, success |-> FALSE,
             images_processed |-> 0, attributions_created |-> 0]
MkResult(ok, n, m) == [returned |-> TRUE, success |-> ok,
                       images_processed |-> n, attributions_created |-> m]

EmptyTable == [x \in {} |-> 0]

\* the tables a selection may meet: any acquisition times, any missing URLs
ImageTables == [ImageIds -> [image_url : {NoUrl}, taken_on : 1 .. MaxTime]]

WithUrls(tbl, blank) ==
  [id \in ImageIds |->
     IF id \in blank THEN tbl[id] ELSE [tbl[id] EXCEPT !.image_url = UrlOf(id)]]

InitialRows(S) == {AttrRow(id, Pred(Osprey, 50)) : id \in S}

\* what a caller of the entry point can get: nothing yet, a structured
\* result, or a raw exception
NoOutcome == [kind |-> "none", success |-> FALSE]
ResultOutcome(ok) == [kind |-> "result", success |-> ok]
ExceptionOutcome == [kind |-> "exception", success |-> FALSE]

\* no call of the pure functions under way
NoCall ==
  /\ label = <<>>
  /\ species_name = <<>>
  /\ species_again = <<>>
  /\ threshold = CONFIDENCE_THRESHOLD
  /\ parsed = <<>>

\* everything but the datastore, as left by module load
InitRun ==
  /\ pc = "idle"
  /\ continuous = FALSE
  /\ actual_batch_size = BATCH_SIZE
  /\ candidates = <<>>
  /\ idx = 0
  /\ path_to_image_id = EmptyTable
  /\ files = {}
  /\ output_json = NoDoc
  /\ downloaded = 0
  /\ attempt = 0
  /\ attributions_count = 0
  /\ generic_left = <<>>
  /\ result = NoResult
  /\ total_processed = 0
  /\ total_attributions = 0
  /\ batch_num = 1
  /\ cont_result = NoResult
  /\ classifier_calls = 0
  /\ last_call_ok = FALSE
  /\ fallback_calls = <<>>
  /\ rows_upserted = 0
  /\ attrs_at_select = {}
  /\ seen_candidates = {}
  /\ always_bird = TRUE
  /\ all_failed = TRUE
  /\ last_written = [k \in {KeyOf(r) : r \in attributions} |-> 50]
  /\ outcome = NoOutcome
  /\ failed_downloads = {}
  /\ parsed_attempt = 0
  /\ written_by = 0

\* a run starts on images acquired in identifier order, all with a URL, any
\* of them attributed by an earlier run
Init ==
  /\ images = [id \in ImageIds |-> [image_url |-> UrlOf(id), taken_on |-> id]]
  /\ \E S \in SUBSET ImageIds : attributions = InitialRows(S)
  /\ openai_configured \in BOOLEAN
  /\ entry = "http"
  /\ NoCall
  /\ InitRun

\* ------------------------------------------------------- run_batch steps
CandidateIds(cands) == {cands[i].id : i \in DOMAIN cands}

\* leaving run_batch: the temporary directory is torn down, the caller resumes
ReturnBatch(res) ==
  /\ result' = res
  /\ pc' = IF continuous THEN "cont_accumulate" ELSE "done"
  /\ files' = {}
  /\ output_json' = NoDoc
  /\ path_to_image_id' = EmptyTable

\* a run that ends hands its result to the caller: the endpoint returns it
\* (line 415), the command line prints it (lines 441, 444)
BoundaryReturn ==
  outcome' = IF pc' = "done"
             THEN ResultOutcome(IF continuous' THEN cont_result'.success
                                ELSE result'.success)
             ELSE outcome

\* the trigger: GET /run-analysis or the command line (lines 404-444)
Trigger(cont, batch_size) ==
  /\ pc = "idle"
  /\ continuous' = cont
  /\ actual_batch_size' = IF batch_size = 0 THEN BATCH_SIZE ELSE batch_size
  /\ pc' = IF cont THEN "cont_select" ELSE "batch_select"
  /\ UNCHANGED << dsVars, pureVars, attributions, candidates, idx, path_to_image_id, files,
                  output_json, downloaded, attempt, attributions_count,
                  generic_left, result, contVars, classifier_calls, last_call_ok,
                  fallback_calls, rows_upserted, attrs_at_select, seen_candidates,
                  always_bird, all_failed, last_written >>
  /\ UNCHANGED << failed_downloads, parsed_attempt, written_by >>
  /\ BoundaryReturn

NoCandidatesResult == MkResult(TRUE, 0, 0)
DownloadFailedResult == MkResult(FALSE, 0, 0)
CompletedResult_needs_rows(cands, count) == MkResult(count > 0, Len(cands), count)
CompletedResult(cands, count) == MkResult(TRUE, Len(cands), count)

\* lines 228-249
BatchSelect ==
  /\ pc = "batch_select"
  /\ \E order \in DescOrders(images) :
       LET cands == get_candidate_images(images, attributions, order, actual_batch_size)
       IN  /\ candidates' = cands
           /\ seen_candidates' = seen_candidates \cup CandidateIds(cands)
           /\ IF cands = <<>>
              THEN ReturnBatch(NoCandidatesResult)
              ELSE /\ pc' = "download"
                   /\ result' = NoResult
                   /\ path_to_image_id' = EmptyTable
                   /\ files' = {}
                   /\ output_json' = NoDoc
  /\ idx' = 1
  /\ downloaded' = 0
  /\ attempt' = 0
  /\ attributions_count' = 0
  /\ generic_left' = <<>>
  /\ classifier_calls' = 0
  /\ last_call_ok' = FALSE
  /\ fallback_calls' = <<>>
  /\ rows_upserted' = 0
  /\ attrs_at_select' = attributions
  /\ always_bird' = TRUE
  /\ all_failed' = TRUE
  /\ UNCHANGED << dsVars, pureVars, attributions, triggerVars, contVars, last_written >>
  /\ failed_downloads' = {}
  /\ parsed_attempt' = 0
  /\ written_by' = 0
  /\ BoundaryReturn

\* a download that reports success whatever happened
download_image_always(ok) == TRUE

\* what download_image returns when the transfer went well or not (lines 42-50)
download_image(ok) == ok

\* one iteration of the download loop (lines 253-264)
Download(ok) ==
  /\ pc = "download"
  /\ idx <= Len(candidates)
  /\ failed_downloads' = IF ok THEN failed_downloads
                         ELSE failed_downloads \cup {candidates[idx].id}
  /\ LET img_id == candidates[idx].id
         image_path == PathOf(img_id)
     IN  IF download_image(ok)
         THEN /\ path_to_image_id' =
                   [x \in DOMAIN path_to_image_id \cup {image_path} |->
                      IF x = image_path THEN img_id ELSE path_to_image_id[x]]
              /\ files' = files \cup {image_path}
              /\ downloaded' = downloaded + 1
         ELSE UNCHANGED << path_to_image_id, files, downloaded >>
  /\ idx' = idx + 1
  /\ UNCHANGED << dsVars, pureVars, attributions, pc, triggerVars, candidates, output_json,
                  attempt, attributions_count, generic_left, result, contVars,
                  classifier_calls, last_call_ok, fallback_calls, rows_upserted,
                  attrs_at_select, seen_candidates,
                  always_bird, all_failed, last_written >>
  /\ UNCHANGED << parsed_attempt, written_by >>
  /\ BoundaryReturn

\* a batch that classifies whatever was downloaded, even nothing
AfterDownloads_always_classify(n) == "classify"

\* where run_batch goes after the download loop (lines 266-275)
AfterDownloads(n) == IF n = 0 THEN "return" ELSE "classify"

DownloadsDone ==
  /\ pc = "download"
  /\ idx > Len(candidates)
  /\ IF AfterDownloads(downloaded) = "return"
     THEN /\ ReturnBatch(DownloadFailedResult)
          /\ UNCHANGED attempt
     ELSE /\ pc' = "classify"
          /\ attempt' = 1
          /\ UNCHANGED << result, files, output_json, path_to_image_id >>
  /\ UNCHANGED << dsVars, pureVars, attributions, triggerVars, candidates, idx, downloaded,
                  attributions_count, generic_left, contVars, classifier_calls,
                  last_call_ok, fallback_calls, rows_upserted, attrs_at_select,
                  seen_candidates,
                  always_bird, all_failed, last_written >>
  /\ UNCHANGED << failed_downloads, parsed_attempt, written_by >>
  /\ BoundaryReturn

\* lines 290-294
HasGeneric(preds) == \E i \in DOMAIN preds : IsGeneric(preds[i].name)

GenericLeft(per_image) ==
  LET hit == SelectSeq(per_image, LAMBDA e : HasGeneric(e.preds))
  IN  [i \in DOMAIN hit |-> hit[i].id]

\* line 299
NonBird(preds) == SelectSeq(preds, LAMBDA q : ~IsGeneric(q.name))

\* an upsert loop that stores only the images that are done
RECURSIVE UpsertRound_resolved_only(_, _, _)
UpsertRound_resolved_only(attrs, cands, per_image) ==
  IF cands = <<>> THEN attrs
  ELSE UpsertRound_resolved_only(
         IF HasGeneric(PerImageGet(per_image, Head(cands).id)) THEN attrs
         ELSE upsert_attributions(attrs, Head(cands).id,
                                  NonBird(PerImageGet(per_image, Head(cands).id))),
         Tail(cands), per_image)

\* the upsert loop over candidate_ids (lines 297-312)
RECURSIVE UpsertRound(_, _, _)
UpsertRound(attrs, cands, per_image) ==
  IF cands = <<>> THEN attrs
  ELSE UpsertRound(
         upsert_attributions(attrs, Head(cands).id,
                             NonBird(PerImageGet(per_image, Head(cands).id))),
         Tail(cands), per_image)

RECURSIVE CountRound(_, _)
CountRound(cands, per_image) ==
  IF cands = <<>> THEN 0
  ELSE Len(NonBird(PerImageGet(per_image, Head(cands).id)))
         + CountRound(Tail(cands), per_image)

SeqRange(s) == {s[i] : i \in DOMAIN s}

RECURSIVE LogRound(_, _, _)
LogRound(log, cands, per_image) ==
  IF cands = <<>> THEN log
  ELSE LogRound(LogUpsert(log, Head(cands).id,
                          NonBird(PerImageGet(per_image, Head(cands).id))),
                Tail(cands), per_image)

\* lines 320-326
PruneTable(table, gl) ==
  LET keep == {fp \in DOMAIN table : table[fp] \in SeqRange(gl)}
  IN  [fp \in keep |-> table[fp]]

\* a prune that forgets the table entries and leaves the image files
PruneFiles_keep(fileset, table, gl) == fileset

PruneFiles(fileset, table, gl) ==
  fileset \ {fp \in DOMAIN table : table[fp] \notin SeqRange(gl)}

\* the invocation counts as failed (line 284)
AttemptFailed(ok, doc) == ~ok \/ ~doc.exists

\* after a failed attempt: continue (line 286); the for loop ends after the last
AfterFailedAttempt(att) == IF att < max_retries THEN "retry" ELSE "return"

\* a loop that falls back as soon as a generic label is left
AfterRound_eager_fallback(gl, att) == IF gl = <<>> THEN "return" ELSE "fallback"

\* after a parsed round (lines 314-349)
AfterRound(gl, att) ==
  IF gl = <<>> THEN "return"
  ELSE IF att < max_retries THEN "retry"
  ELSE "fallback"

\* a loop that leaves the document of the previous attempt in place
Unlink_keep(doc) == doc

\* the stale document is removed before the invocation (lines 279-281)
Unlink(doc) == NoDoc

\* one iteration of the retry loop (lines 276-328): the stale document is
\* removed, the classifier runs (exit status ok, doc is what it wrote, NoDoc
\* when it wrote nothing), and the round is parsed, upserted and decided
Attempt(ok, doc) ==
  LET before == Unlink(output_json)
      after == IF doc.exists THEN doc ELSE before
      stamp == IF doc.exists THEN attempt
               ELSE IF before.exists THEN written_by ELSE 0
  IN
  /\ pc = "classify"
  /\ attempt <= max_retries
  /\ classifier_calls' = classifier_calls + 1
  /\ last_call_ok' = ~AttemptFailed(ok, after)
  /\ all_failed' = (all_failed /\ AttemptFailed(ok, after))
  /\ IF AttemptFailed(ok, after)
     THEN /\ UNCHANGED << attributions, attributions_count, generic_left,
                          rows_upserted, idx, last_written >>
          /\ always_bird' = FALSE
          /\ parsed_attempt' = 0
          /\ IF AfterFailedAttempt(attempt) = "retry"
             THEN /\ attempt' = attempt + 1
                  /\ output_json' = after
                  /\ written_by' = stamp
                  /\ UNCHANGED << pc, result, files, path_to_image_id >>
             ELSE /\ ReturnBatch(CompletedResult(candidates, attributions_count))
                  /\ written_by' = 0
                  /\ UNCHANGED attempt
     ELSE LET per_image == parse_speciesnet_output(after, path_to_image_id,
                                                   CONFIDENCE_THRESHOLD)
              gl == GenericLeft(per_image)
              n == CountRound(candidates, per_image)
              next == AfterRound(gl, attempt)
          IN  /\ generic_left' = gl
              /\ always_bird' = (always_bird /\ SeqRange(gl) = {path_to_image_id[fp] : fp \in DOMAIN path_to_image_id})
              /\ last_written' = LogRound(last_written, candidates, per_image)
              /\ attributions' = UpsertRound(attributions, candidates, per_image)
              /\ attributions_count' = attributions_count + n
              /\ rows_upserted' = rows_upserted + n
              /\ parsed_attempt' = stamp
              /\ CASE next = "return" ->
                        /\ ReturnBatch(CompletedResult(candidates, attributions_count + n))
                        /\ written_by' = 0
                        /\ UNCHANGED << attempt, idx >>
                   [] next = "retry" ->
                        /\ path_to_image_id' = PruneTable(path_to_image_id, gl)
                        /\ files' = PruneFiles(files, path_to_image_id, gl)
                        /\ output_json' = after
                        /\ written_by' = stamp
                        /\ attempt' = attempt + 1
                        /\ UNCHANGED << pc, result, idx >>
                   [] next = "fallback" ->
                        /\ pc' = "fallback"
                        /\ idx' = 1
                        /\ output_json' = after
                        /\ written_by' = stamp
                        /\ UNCHANGED << attempt, result, files, path_to_image_id >>
  /\ UNCHANGED << dsVars, pureVars, triggerVars, candidates, downloaded, contVars,
                  fallback_calls, attrs_at_select, seen_candidates >>
  /\ UNCHANGED failed_downloads
  /\ BoundaryReturn

\* line 333
UrlOfCandidate(cands, img_id) ==
  LET hit == SelectSeq(cands, LAMBDA r : r.id = img_id)
  IN  IF hit = <<>> THEN NoUrl ELSE hit[1].image_url

\* one iteration of the fallback loop (lines 331-348)
Fallback(raised, answer) ==
  /\ pc = "fallback"
  /\ idx <= Len(generic_left)
  /\ LET img_id == generic_left[idx]
         url == UrlOfCandidate(candidates, img_id)
     IN  IF url = NoUrl
         THEN UNCHANGED << attributions, fallback_calls, rows_upserted, last_written >>
         ELSE LET openai_preds == classify_with_openai(openai_configured, raised, answer)
              IN  /\ fallback_calls' = Append(fallback_calls, << img_id, url >>)
                  /\ attributions' = upsert_attributions(attributions, img_id, openai_preds)
                  /\ last_written' = LogUpsert(last_written, img_id, openai_preds)
                  /\ rows_upserted' = rows_upserted + Len(openai_preds)
  /\ idx' = idx + 1
  /\ UNCHANGED << dsVars, pureVars, pc, triggerVars, candidates, path_to_image_id, files,
                  output_json, downloaded, attempt, attributions_count,
                  generic_left, result, contVars, classifier_calls, last_call_ok,
                  attrs_at_select, seen_candidates,
                  always_bird, all_failed >>
  /\ UNCHANGED << failed_downloads, parsed_attempt, written_by >>
  /\ BoundaryReturn

\* line 349 and lines 351-357
FallbackDone ==
  /\ pc = "fallback"
  /\ idx > Len(generic_left)
  /\ ReturnBatch(CompletedResult(candidates, attributions_count))
  /\ UNCHANGED << dsVars, pureVars, attributions, triggerVars, candidates, idx, downloaded,
                  attempt, attributions_count, generic_left, contVars,
                  classifier_calls, last_call_ok, fallback_calls, rows_upserted,
                  attrs_at_select, seen_candidates,
                  always_bird, all_failed, last_written >>
  /\ UNCHANGED << failed_downloads, parsed_attempt, written_by >>
  /\ BoundaryReturn

\* -------------------------------------------------- run_continuous steps
\* lines 367-376 and 392-402
ContSelectStep ==
  /\ pc = "cont_select"
  /\ \E order \in DescOrders(images) :
       LET cands == get_candidate_images(images, attributions, order, actual_batch_size)
       IN  IF cands = <<>>
           THEN /\ pc' = "done"
                /\ cont_result' = MkResult(TRUE, total_processed, total_attributions)
           ELSE /\ pc' = "batch_select"
                /\ UNCHANGED cont_result
  /\ UNCHANGED << dsVars, pureVars, attributions, triggerVars, candidates, idx,
                  path_to_image_id, files, output_json, downloaded, attempt,
                  attributions_count, generic_left, result, total_processed,
                  total_attributions, batch_num, classifier_calls, last_call_ok,
                  fallback_calls, rows_upserted, attrs_at_select, seen_candidates,
                  always_bird, all_failed, last_written >>
  /\ UNCHANGED << failed_downloads, parsed_attempt, written_by >>
  /\ BoundaryReturn

\* the driver explored up to MaxBatches batches
ContSelect == batch_num <= MaxBatches /\ ContSelectStep

\* lines 381-390
ContAccumulate ==
  /\ pc = "cont_accumulate"
  /\ IF result.success
     THEN /\ total_processed' = total_processed + result.images_processed
          /\ total_attributions' = total_attributions + result.attributions_created
     ELSE UNCHANGED << total_processed, total_attributions >>
  /\ batch_num' = batch_num + 1
  /\ pc' = "cont_select"
  /\ UNCHANGED << dsVars, pureVars, attributions, triggerVars, candidates, idx,
                  path_to_image_id, files, output_json, downloaded, attempt,
                  attributions_count, generic_left, result, cont_result,
                  classifier_calls, last_call_ok, fallback_calls, rows_upserted,
                  attrs_at_select, seen_candidates,
                  always_bird, all_failed, last_written >>
  /\ UNCHANGED << failed_downloads, parsed_attempt, written_by >>
  /\ BoundaryReturn

Next ==
  \/ \E batch_size \in 0 .. MaxBatchSizeArg : Trigger(FALSE, batch_size)
  \/ Trigger(TRUE, 1)
  \/ BatchSelect
  \/ \E ok \in BOOLEAN : Download(ok)
  \/ DownloadsDone
  \/ \E ok \in BOOLEAN : \E doc \in ClassifierOutcomes(ok, files) : Attempt(ok, doc)
  \/ \E raised \in BOOLEAN, answer \in FallbackResponses : Fallback(raised, answer)
  \/ FallbackDone
  \/ ContSelect
  \/ ContAccumulate

Spec == Init /\ [][Next]_vars

\* --------------------------------------------- failures at the boundary
\* what reaches the caller when run_batch or run_continuous raises: the
\* endpoint converts the exception (lines 416-422), main() has no handler
\* (lines 439-444)
RaisedOutcome(e) == IF e = "http" THEN ResultOutcome(FALSE) ELSE ExceptionOutcome

\* a datastore query of get_candidate_images raises (lines 197-210), in
\* run_batch (line 230) or in run_continuous (line 373); nothing catches it
\* before the entry point
QueryError ==
  /\ pc \in {"batch_select", "cont_select"}
  /\ pc' = "failed"
  /\ outcome' = RaisedOutcome(entry)
  /\ UNCHANGED << dsVars, pureVars, attributions, triggerVars, candidates, idx,
                  path_to_image_id, files, output_json, downloaded, attempt,
                  attributions_count, generic_left, result, contVars,
                  classifier_calls, last_call_ok, fallback_calls, rows_upserted,
                  attrs_at_select, seen_candidates, always_bird, all_failed,
                  last_written, failed_downloads, parsed_attempt, written_by >>

InitBoundary ==
  /\ images = [id \in ImageIds |-> [image_url |-> UrlOf(id), taken_on |-> id]]
  /\ attributions = {}
  /\ openai_configured = TRUE
  /\ entry \in {"http", "cli"}
  /\ NoCall
  /\ InitRun

NextBoundary == Next \/ QueryError

SpecBoundary == InitBoundary /\ [][NextBoundary]_vars

\* ------------------------------------------ the driver without a batch cap
\* The driver's counters never influence its control flow (lines 367-390);
\* here they stop counting at a ceiling, so that a run of any number of
\* batches stays within finitely many states.
CounterCeiling == MaxBatches + 1
UpTo(n) == Min(n, CounterCeiling)

\* lines 381-390, counters kept up to the ceiling
ContAccumulateUnbounded ==
  /\ pc = "cont_accumulate"
  /\ IF result.success
     THEN /\ total_processed' = UpTo(total_processed + result.images_processed)
          /\ total_attributions' = UpTo(total_attributions + result.attributions_created)
     ELSE UNCHANGED << total_processed, total_attributions >>
  /\ batch_num' = UpTo(batch_num + 1)
  /\ pc' = "cont_select"
  /\ UNCHANGED << dsVars, pureVars, attributions, triggerVars, candidates, idx,
                  path_to_image_id, files, output_json, downloaded, attempt,
                  attributions_count, generic_left, result, cont_result,
                  classifier_calls, last_call_ok, fallback_calls, rows_upserted,
                  attrs_at_select, seen_candidates,
                  always_bird, all_failed, last_written >>
  /\ UNCHANGED << failed_downloads, parsed_attempt, written_by >>
  /\ BoundaryReturn

NextContinuous ==
  \/ Trigger(TRUE, 1)
  \/ BatchSelect
  \/ \E ok \in BOOLEAN : Download(ok)
  \/ DownloadsDone
  \/ \E ok \in BOOLEAN : \E doc \in ClassifierOutcomes(ok, files) : Attempt(ok, doc)
  \/ \E raised \in BOOLEAN, answer \in FallbackResponses : Fallback(raised, answer)
  \/ FallbackDone
  \/ ContSelectStep
  \/ ContAccumulateUnbounded

\* the program is sequential: whenever it has a next step it takes one
SpecContinuous == Init /\ [][NextContinuous]_vars /\ WF_vars(NextContinuous)

\* ------------------------------------------- the selector, on any datastore
InitSelect ==
  /\ \E tbl \in ImageTables, blank \in SUBSET ImageIds : images = WithUrls(tbl, blank)
  /\ \E S \in SUBSET ImageIds : attributions = InitialRows(S)
  /\ openai_configured = TRUE
  /\ entry = "http"
  /\ NoCall
  /\ InitRun

\* one call of get_candidate_images(limit) (lines 196-212)
SelectCandidates(limit) ==
  /\ pc = "idle"
  /\ \E order \in DescOrders(images) :
       candidates' = get_candidate_images(images, attributions, order, limit)
  /\ actual_batch_size' = limit
  /\ attrs_at_select' = attributions
  /\ UNCHANGED << dsVars, pureVars, attributions, pc, continuous, idx, path_to_image_id,
                  files, output_json, downloaded, attempt, attributions_count,
                  generic_left, result, contVars, classifier_calls, last_call_ok,
                  fallback_calls, rows_upserted, seen_candidates, always_bird,
                  all_failed, last_written >>
  /\ UNCHANGED << outcome, failed_downloads, parsed_attempt, written_by >>

NextSelect == \E limit \in 1 .. MaxLimit : SelectCandidates(limit)

SpecSelect == InitSelect /\ [][NextSelect]_vars

\* ------------------------------------------- label normalization, alone
\* labels over letters of both cases, the separator, underscore and space
LabelAlphabet == {"a", "B", ";", "_", " "}

LabelsOfLen(n) == [1 .. n -> LabelAlphabet]
RawLabels == UNION {LabelsOfLen(n) : n \in 0 .. MaxLabelLen}

InitNormalize ==
  /\ images = [id \in ImageIds |-> [image_url |-> UrlOf(id), taken_on |-> id]]
  /\ attributions = {}
  /\ openai_configured = TRUE
  /\ entry = "http"
  /\ label \in RawLabels
  /\ species_name = <<>>
  /\ species_again = <<>>
  /\ threshold = CONFIDENCE_THRESHOLD
  /\ parsed = <<>>
  /\ InitRun

\* _extract_species_name applied to the label, then to its own result
Normalize ==
  /\ species_name = <<>>
  /\ species_name' = _extract_species_name(label)
  /\ species_again' = _extract_species_name(_extract_species_name(label))
  /\ UNCHANGED << dsVars, label, threshold, parsed, attributions, pc, triggerVars,
                  candidates, idx, path_to_image_id, files, output_json,
                  downloaded, attempt, attributions_count, generic_left, result,
                  contVars, classifier_calls, last_call_ok, fallback_calls,
                  rows_upserted, attrs_at_select, seen_candidates, always_bird,
                  all_failed, last_written, outcome, failed_downloads,
                  parsed_attempt, written_by >>

NextNormalize == Normalize

SpecNormalize == InitNormalize /\ [][NextNormalize]_vars

\* --------------------------------------- the predictions parser, alone
L_OWL == <<"B","_","O","W","L">>
UnknownPath == <<"elsewhere", 0>>

\* primary label and score of an entry: generic, a species above and below
\* the default threshold, a blocked label, no label
PrimaryChoices ==
  { << L_bird, 90 >>, << L_owl, 60 >>, << L_owl, 20 >>, << L_blank, 95 >>, << <<>>, 50 >> }

\* classes and scores of an entry: none; the primary's species in another
\* spelling and the generic label; a blocked label and a score that is not
\* a number; six alternates, the generic label several times among the
\* first five and a species in sixth place
AltChoices ==
  { << <<>>, <<>> >>,
    << <<L_OWL, L_bird>>, <<70, 40>> >>,
    << <<L_blank, L_owl>>, <<95, NonNumeric>> >>,
    << <<L_bird, L_bird, L_blank, L_bird, L_bird, L_owl>>, <<10, 45, 99, 30, 50, 99>> >> }

FailureChoices == { {}, {"CLASSIFIER"} }

EntriesAt(path) ==
  { [filepath |-> path, prediction |-> pr[1], prediction_score |-> pr[2],
     failures |-> f, classes |-> al[1], scores |-> al[2]] :
      pr \in PrimaryChoices, al \in AltChoices, f \in FailureChoices }

\* documents of one entry, or of two: for the same image, for another image,
\* or with a path the table does not know
ParseDocs ==
  {MkDoc(<< e >>) : e \in EntriesAt(PathOf(1))}
    \cup {MkDoc(<< e1, e2 >>) :
            e1 \in EntriesAt(PathOf(1)),
            e2 \in EntriesAt(PathOf(1)) \cup EntriesAt(PathOf(2)) \cup EntriesAt(UnknownPath)}

ParseThresholds == {0, 30, 50, 100}

ParseTable == [fp \in {PathOf(1), PathOf(2)} |-> IF fp = PathOf(1) THEN 1 ELSE 2]

InitParse ==
  /\ images = [id \in ImageIds |-> [image_url |-> UrlOf(id), taken_on |-> id]]
  /\ attributions = {}
  /\ openai_configured = TRUE
  /\ entry = "http"
  /\ label = <<>>
  /\ species_name = <<>>
  /\ species_again = <<>>
  /\ threshold \in ParseThresholds
  /\ parsed = <<>>
  /\ pc = "idle"
  /\ continuous = FALSE
  /\ actual_batch_size = BATCH_SIZE
  /\ candidates = <<>>
  /\ idx = 0
  /\ path_to_image_id = ParseTable
  /\ files = {PathOf(1), PathOf(2)}
  /\ output_json \in ParseDocs
  /\ downloaded = 0
  /\ attempt = 0
  /\ attributions_count = 0
  /\ generic_left = <<>>
  /\ result = NoResult
  /\ total_processed = 0
  /\ total_attributions = 0
  /\ batch_num = 1
  /\ cont_result = NoResult
  /\ classifier_calls = 0
  /\ last_call_ok = FALSE
  /\ fallback_calls = <<>>
  /\ rows_upserted = 0
  /\ attrs_at_select = {}
  /\ seen_candidates = {}
  /\ always_bird = TRUE
  /\ all_failed = TRUE
  /\ last_written = EmptyTable
  /\ outcome = NoOutcome
  /\ failed_downloads = {}
  /\ parsed_attempt = 0
  /\ written_by = 0

\* one call of parse_speciesnet_output (lines 131-194)
ParseCall ==
  /\ pc = "idle"
  /\ pc' = "parsed"
  /\ parsed' = parse_speciesnet_output(output_json, path_to_image_id, threshold)
  /\ UNCHANGED << dsVars, label, species_name, species_again, threshold,
                  attributions, triggerVars, candidates, idx, path_to_image_id,
                  files, output_json, downloaded, attempt, attributions_count,
                  generic_left, result, contVars, classifier_calls, last_call_ok,
                  fallback_calls, rows_upserted, attrs_at_select, seen_candidates,
                  always_bird, all_failed, last_written, outcome,
                  failed_downloads, parsed_attempt, written_by >>

NextParse == ParseCall

SpecParse == InitParse /\ [][NextParse]_vars

\* ---------------------------------------------------------------- claims
Attributed(attrs, id) == \E r \in attrs : r.image_id = id

\* C1: a batch invokes the classifier at most 5 times; when every call
\* reports "Bird" for every image the classifier is invoked exactly 5 times,
\* then the fallback is called for each image, and the batch returns.
C1_RetryBound ==
  /\ classifier_calls <= 5
  /\ pc = "classify" => attempt <= 5 /\ classifier_calls = attempt - 1
  /\ (always_bird /\ classifier_calls > 0 /\ pc # "classify") =>
       /\ classifier_calls = 5
       /\ \/ pc = "fallback" /\ Len(fallback_calls) = idx - 1
          \/ result.returned /\ Len(fallback_calls) = downloaded

C1_Witness ==
  /\ pc = "done"
  /\ result.returned
  /\ always_bird
  /\ classifier_calls = 5
  /\ Len(fallback_calls) = 2

\* C2: when the classifier invocation fails on all 5 attempts, the batch
\* escalates to the fallback classifier for the images of the workset.
C2_FailureEscalates ==
  (result.returned /\ classifier_calls = 5 /\ all_failed)
    => Len(fallback_calls) = downloaded

\* C3: when the retry ceiling is reached and generic-left images remain, the
\* fallback is invoked once for each of them with its source URL, whatever
\* the outcome of the individual attempts.
C3_FallbackAtCeiling ==
  (result.returned /\ classifier_calls = 5 /\ generic_left # <<>>)
    => fallback_calls =
         [i \in DOMAIN generic_left |-> << generic_left[i], UrlOf(generic_left[i]) >>]

\* C4: no fallback call happens before the 5th classifier invocation, and a
\* successful round that leaves no generic image ends the loop: the batch
\* returns with no further classifier invocation and no fallback call.
C4_FallbackOnlyAfterBudget ==
  [][ /\ (fallback_calls' # <<>> \/ pc' = "fallback") => classifier_calls' = 5
      /\ (pc = "classify" /\ last_call_ok' /\ generic_left' = <<>>)
           => /\ result'.returned
              /\ pc' \notin {"classify", "fallback"}
              /\ fallback_calls' = <<>> ]_vars

C4_Witness ==
  /\ result.returned
  /\ last_call_ok
  /\ generic_left = <<>>
  /\ classifier_calls = 2
  /\ fallback_calls = <<>>
  /\ attributions_count = 2

\* C5: a successful batch reports as attributions_created the number of rows
\* passed to upsert_attributions in all rounds and in the fallback step.
C5_CountsEveryRow ==
  (result.returned /\ result.success) => result.attributions_created = rows_upserted

\* C6: a returned batch reports success=false exactly when the candidate
\* list was non-empty and no image downloaded.
C6_FailureOnlyOnZeroDownloads ==
  result.returned => (~result.success <=> (candidates # <<>> /\ downloaded = 0))

C6_Witness ==
  /\ result.returned
  /\ result.success
  /\ classifier_calls = 5
  /\ all_failed
  /\ downloaded > 0

\* C7: when every download of a non-empty batch fails, the batch returns
\* success=false with zero counts, neither classifier is invoked and the
\* attribution rows are as they were at selection.
C7_ZeroDownloads ==
  (result.returned /\ candidates # <<>> /\ downloaded = 0) =>
    /\ ~result.success
    /\ result.images_processed = 0
    /\ result.attributions_created = 0
    /\ classifier_calls = 0
    /\ fallback_calls = <<>>
    /\ attributions = attrs_at_select

C7_Witness ==
  /\ result.returned
  /\ Len(candidates) = 2
  /\ downloaded = 0
  /\ ~result.success

OneRowPerKey(attrs) == \A a, b \in attrs : SameKey(a, b) => a = b

LatestWins(attrs, log) ==
  \A a \in attrs : KeyOf(a) \in DOMAIN log /\ a.confidence = log[KeyOf(a)]

\* C8: the attributions table holds at most one row per key (image id,
\* species, model version), the stored confidence of a key is that of the
\* latest upsert of the key, and a step that upserts no row writes nothing.
C8_UpsertIdempotent ==
  [][ /\ OneRowPerKey(attributions')
      /\ LatestWins(attributions', last_written')
      /\ rows_upserted' = rows_upserted => attributions' = attributions ]_vars

\* a stored 50 that replaced the 60 of an earlier round: the latest value,
\* below the maximum
C8_Witness ==
  /\ Len(candidates) = 1
  /\ attributions_count >= 1
  /\ AttrRow(candidates[1].id, Pred(B_Owl, 50)) \in attributions

\* C9: get_candidate_images(limit) returns at most limit images, each an
\* image of the table with a non-empty URL and no attribution row at the
\* time of the call, in acquisition-time-descending order.
C9_SelectorSafety ==
  /\ Len(candidates) <= actual_batch_size
  /\ \A i \in DOMAIN candidates :
       /\ candidates[i].id \in ImageIds
       /\ candidates[i] = ImageRow(images, candidates[i].id)
       /\ candidates[i].image_url # NoUrl
       /\ ~Attributed(attrs_at_select, candidates[i].id)
  /\ \A i, j \in DOMAIN candidates :
       i < j => /\ candidates[i].taken_on >= candidates[j].taken_on
                /\ candidates[i].id # candidates[j].id

\* an attributed image and a URL-less image, both newer than the candidate
C9_Witness ==
  /\ Len(candidates) = 1
  /\ actual_batch_size = 2
  /\ \E a, b \in ImageIds :
       /\ Attributed(attributions, a)
       /\ images[a].taken_on > candidates[1].taken_on
       /\ images[b].image_url = NoUrl
       /\ ~Attributed(attributions, b)
       /\ images[b].taken_on > candidates[1].taken_on

\* C10: when run_continuous returns, every image with a URL and without an
\* attribution row was a candidate of some batch of the run.
C10_AllProcessed ==
  cont_result.returned =>
    \A id \in ImageIds :
      (images[id].image_url # NoUrl /\ ~Attributed(attributions, id))
        => id \in seen_candidates

\* C11: with an unchanging image table, run_continuous eventually gets an
\* empty selection and returns, also when a selected image ends its batch
\* without an attribution row.
C11_ContinuousTerminates == <>(cont_result.returned)

\* C12: when a step of run_batch or run_continuous raises, the caller of
\* either entry point still receives a structured result with success=false.
C12_StructuredFailure ==
  pc = "failed" => (outcome.kind = "result" /\ ~outcome.success)

\* C13: label normalization is idempotent: normalizing a normalized label
\* gives the same name.
C13_NormalizeIdempotent ==
  species_name # <<>> => species_again = species_name

\* the entries of the document that the table maps to image id
EntriesOf(doc, table, id) ==
  {i \in DOMAIN doc.predictions :
     /\ doc.predictions[i].filepath \in DOMAIN table
     /\ table[doc.predictions[i].filepath] = id}

\* the candidates the filter accepted for image id, over all its entries
AcceptedFor(doc, table, t, id) ==
  UNION {SeqRange(PrimaryRows(doc.predictions[i], t))
           \cup SeqRange(AltRows(doc.predictions[i], t)) :
         i \in EntriesOf(doc, table, id)}

\* C14: each per-image list of parse_speciesnet_output has at most one entry
\* per case-insensitive name, carrying the maximum confidence accepted for
\* that name, and is sorted by confidence descending, also when several
\* entries of the document map to the image.
C14_DedupSorted ==
  pc = "parsed" =>
    \A k \in DOMAIN parsed :
      LET out == parsed[k].preds
          acc == AcceptedFor(output_json, path_to_image_id, threshold, parsed[k].id)
      IN  /\ \A i, j \in DOMAIN out :
                i # j => Lower(out[i].name) # Lower(out[j].name)
          /\ \A i \in 1 .. Len(out) - 1 : out[i].confidence >= out[i+1].confidence
          /\ \A i \in DOMAIN out :
                /\ out[i] \in acc
                /\ \A a \in acc :
                      Lower(a.name) = Lower(out[i].name)
                        => a.confidence <= out[i].confidence
          /\ \A a \in acc : \E i \in DOMAIN out : Lower(out[i].name) = Lower(a.name)

\* two entries for one image, the same name accepted with several
\* confidences, two names in the output
C14_Witness ==
  /\ pc = "parsed"
  /\ Len(output_json.predictions) = 2
  /\ output_json.predictions[2].filepath = PathOf(1)
  /\ Len(parsed) = 1
  /\ Len(parsed[1].preds) = 2
  /\ Cardinality(AcceptedFor(output_json, path_to_image_id, threshold, 1)) >= 4

\* a row of the output is justified by entry e: it is e's primary candidate
\* or one of its first five alternates, unblocked and not below the threshold
JustifiedBy(row, e, t) ==
  /\ row.confidence >= t
  /\ Lower(row.name) \notin BLOCKLIST
  /\ \/ /\ row.name = _extract_species_name(e.prediction)
        /\ row.confidence = e.prediction_score
     \/ /\ "CLASSIFIER" \notin e.failures
        /\ \E i \in 1 .. 5 :
              /\ i <= Len(e.classes)
              /\ i <= Len(e.scores)
              /\ row.name = _extract_species_name(e.classes[i])
              /\ row.confidence = ToFloat(e.scores[i])

\* C15: every row of the output of parse_speciesnet_output is a candidate of
\* an entry of its image whose confidence is not below the threshold and
\* whose name is not blocked; only the first 5 alternates count, and none
\* when the failure markers contain "CLASSIFIER".
C15_FilterSafety ==
  pc = "parsed" =>
    \A k \in DOMAIN parsed :
      \A i \in DOMAIN parsed[k].preds :
        \E n \in EntriesOf(output_json, path_to_image_id, parsed[k].id) :
          JustifiedBy(parsed[k].preds[i], output_json.predictions[n], threshold)

\* a sixth alternate above the threshold and a blocked alternate above the
\* threshold, neither in the output
C15_Witness ==
  /\ pc = "parsed"
  /\ threshold = 30
  /\ Len(output_json.predictions) = 1
  /\ Len(output_json.predictions[1].classes) = 6
  /\ output_json.predictions[1].failures = {}
  /\ Len(parsed) = 1
  /\ \A i \in DOMAIN parsed[1].preds : Lower(parsed[1].preds[i].name) = bird

TableIds(table) == {table[fp] : fp \in DOMAIN table}

C17_PartialPersisted ==
  [][(pc = "classify" /\ last_call_ok' /\ pc' \in {"classify", "fallback"}) =>
       \A per_image \in {parse_speciesnet_output(output_json', path_to_image_id,
                                                 CONFIDENCE_THRESHOLD)} :
         \A i \in DOMAIN candidates :
           \A preds \in {PerImageGet(per_image, candidates[i].id)} :
             \A j \in DOMAIN preds :
               ~IsGeneric(preds[j].name) =>
                 AttrRow(candidates[i].id, preds[j]) \in attributions'
  ]_vars

\* a generic-left image waits for round 2 with its other species stored
C17_Witness ==
  /\ pc = "classify"
  /\ attempt = 2
  /\ last_call_ok
  /\ \E i \in DOMAIN generic_left :
       /\ AttrRow(generic_left[i], Pred(B_Owl, 60)) \in attributions
       /\ AttrRow(generic_left[i], Pred(B_Owl, 60)) \notin attrs_at_select

\* C18: a failed download is isolated: the image is absent from the table,
\* the image files, every predictions document and every fallback call of
\* the batch, no row is written for it, the first classifier invocation
\* works on exactly the downloaded images, and a batch with at least one
\* download classifies and returns success.
C18_DownloadIsolation ==
  /\ failed_downloads \cap TableIds(path_to_image_id) = {}
  /\ \A id \in failed_downloads :
       /\ PathOf(id) \notin files
       /\ \A i \in DOMAIN output_json.predictions :
            output_json.predictions[i].filepath # PathOf(id)
       /\ \A i \in DOMAIN fallback_calls : fallback_calls[i][1] # id
       /\ {r \in attributions : r.image_id = id} = {r \in attrs_at_select : r.image_id = id}
  /\ (pc = "classify" /\ classifier_calls = 0) =>
       /\ TableIds(path_to_image_id) = CandidateIds(candidates) \ failed_downloads
       /\ files = {PathOf(id) : id \in CandidateIds(candidates) \ failed_downloads}
  /\ (result.returned /\ downloaded > 0) =>
       /\ result.success
       /\ classifier_calls >= 1

\* one of two candidates failed to download; the other was classified and
\* stored, and the batch returned success
C18_Witness ==
  /\ result.returned
  /\ result.success
  /\ Cardinality(failed_downloads) = 1
  /\ downloaded = 1
  /\ classifier_calls >= 1
  /\ rows_upserted > 0

\* C19: no predictions document exists when the classifier is invoked, a
\* successful round parses the document its own invocation wrote, and a
\* failed attempt parses and stores nothing, whatever an earlier attempt
\* left behind.
C19_NoStaleDocument ==
  [][pc = "classify" =>
       /\ ~Unlink(output_json).exists
       /\ IF last_call_ok'
          THEN parsed_attempt' = attempt
          ELSE /\ parsed_attempt' = 0
               /\ attributions' = attributions
               /\ rows_upserted' = rows_upserted
  ]_vars

\* round 1 stored rows and left a document, the invocation of attempt 2
\* wrote none: nothing was parsed and the workspace holds no document
C19_Witness ==
  /\ pc = "classify"
  /\ attempt = 3
  /\ ~last_call_ok
  /\ ~all_failed
  /\ rows_upserted > 0
  /\ ~output_json.exists
  /\ parsed_attempt = 0

\* C20: no stored attribution row carries the generic label "Bird"
\* (case-insensitively), from a classifier round or from the fallback.
C20_NoGenericRow ==
  \A r \in attributions : ~IsGeneric(r.species)

====
